---------------------------- MODULE Spec2Model ----------------------------
(***************************************************************************)
(* A model of the depth and colour core of the soil-analysis service:      *)
(*   src/inference/depth_utils.py  estimate_depth, get_depth_zones,        *)
(*                                 DepthCalibrator                         *)
(*   src/inference/color_utils.py  ColorAnalyzer (the image pipeline of    *)
(*                                 analyze_color, chart matching and       *)
(*                                 colour descriptions)                    *)
(*   src/main.py                   the construction of the analyzer when   *)
(*                                 the service starts                      *)
(*                                                                         *)
(* Python floats are modelled by exact rationals [n, d] in lowest terms.   *)
(* The binary representation of a float is observable in the results       *)
(* modelled here where a float is rounded or truncated at a boundary:      *)
(* round(x, 1) on a value exactly half way between two tenths (Round1Set), *)
(* and the truncation to an integer of a float32 product or mean that is   *)
(* a whole number in exact arithmetic (Scaled, Truncated).                 *)
(***************************************************************************)
EXTENDS Integers, Sequences, FiniteSets, TLC

VARIABLES
    pixel_cm_ratio,     \* DepthCalibrator.pixel_cm_ratio
    reference_points,   \* DepthCalibrator.reference_points
    default_ratio,      \* the pixel_cm_ratio the calibrator was constructed with
    calls,              \* the arguments of the add_reference_point calls so far
    munsell_df,         \* ColorAnalyzer.munsell_df: the reference chart, or None
    knn_model,          \* ColorAnalyzer.knn_model: fitted on the chart, or None
    op,                 \* the operation that ran last
    arg,                \* its arguments
    ret,                \* what it returned
    pc,                 \* "called" while a call of a function has not returned yet
    frame               \* the local variables of the last analyze_color call

calibrator == <<pixel_cm_ratio, reference_points, default_ratio, calls>>
analyzer == <<munsell_df, knn_model>>
vars == <<pixel_cm_ratio, reference_points, default_ratio, calls, munsell_df, knn_model,
          op, arg, ret, pc, frame>>

None == "None"
\* None in ColorAnalyzer.munsell_df and ColorAnalyzer.knn_model: the one data
\* frame without columns, the one model without training points.
NoDataFrame == [columns |-> {}, rows |-> <<>>]
NoModel == [X |-> <<>>, labels |-> <<>>]

\* An image is a numpy array: ndim dimensions, shape (h, w, 3) when ndim = 3
\* and (h, w) when ndim = 2, and its elements in row-major order.  None as
\* an image is the one array of no dimension.
NoImage == [ndim |-> 0, h |-> 0, w |-> 0, data |-> <<>>]

\* No analyze_color call has been made: no stage has run.
NoFrame == [stages |-> <<>>, filtered_image |-> NoImage, dominant_rgb |-> <<>>]

---------------------------------------------------------------------------
(* Rational arithmetic: the values of Python floats.                       *)

Abs(x) == IF x < 0 THEN -x ELSE x

RECURSIVE GCD(_, _)
GCD(a, b) == IF b = 0 THEN a ELSE GCD(b, a % b)

\* n/d in lowest terms with a positive denominator (d # 0).
Rat(n, d) ==
    LET g == GCD(Abs(n), Abs(d))
        s == IF d < 0 THEN -1 ELSE 1
    IN  [n |-> (s * n) \div g, d |-> (s * d) \div g]

Int2Rat(i) == [n |-> i, d |-> 1]
Zero == Int2Rat(0)

RAdd(a, b) == Rat(a.n * b.d + b.n * a.d, a.d * b.d)
RSub(a, b) == Rat(a.n * b.d - b.n * a.d, a.d * b.d)
RMul(a, b) == Rat(a.n * b.n, a.d * b.d)
RDiv(a, b) == Rat(a.n * b.d, a.d * b.n)          \* b # Zero
RLess(a, b) == a.n * b.d < b.n * a.d
RLeq(a, b) == a.n * b.d <= b.n * a.d
RAbs(a) == [n |-> Abs(a.n), d |-> a.d]

\* What a float division or sum gives once a zero divisor was met: numpy's
\* inf, -inf or nan (a numpy.float64 divisor does not raise).  It is the one
\* value with denominator 0.
NonFinite == [n |-> 0, d |-> 0]

RECURSIVE RSum(_)
RSum(s) == IF s = <<>> THEN Zero ELSE RAdd(Head(s), RSum(Tail(s)))

\* numpy.mean of a non-empty list.
Mean(s) == RDiv(RSum(s), Int2Rat(Len(s)))

---------------------------------------------------------------------------
(* DepthCalibrator                                                         *)

\* The arguments the calls are made with.
MaxPoints == 3
PixelYs == {0, 50, 100}
DepthCms == {Int2Rat(0), Int2Rat(5), Int2Rat(10)}
DefaultRatios == {Int2Rat(10), Int2Rat(4)}
QueryPixels == {0, 50, 100}

\* sorted(points, key=lambda x: x[0]): a stable sort, so points of equal
\* pixel_y keep their insertion order.  Insert p behind every element whose
\* key is not greater.
RECURSIVE InsertByPixel(_, _)
InsertByPixel(p, s) ==
    IF s = <<>> THEN <<p>>
    ELSE IF p[1] < Head(s)[1] THEN <<p>> \o s
    ELSE <<Head(s)>> \o InsertByPixel(p, Tail(s))

\* A faulty variant of sorted that leaves the points in insertion order.
SortedKeepsInsertionOrder(points) == points

RECURSIVE sorted(_)
sorted(points) ==
    IF points = <<>> THEN <<>>
    ELSE InsertByPixel(points[Len(points)], sorted(SubSeq(points, 1, Len(points) - 1)))

\* The list "ratios" of _recalculate_ratio: the slope of each consecutive
\* pair of the sorted points whose depths differ.
RECURSIVE ratios(_)
ratios(sp) ==
    IF Len(sp) < 2 THEN <<>>
    ELSE LET pixel_diff == sp[2][1] - sp[1][1]
             depth_diff == RSub(sp[2][2], sp[1][2])
         IN  (IF depth_diff # Zero
              THEN <<RDiv(Int2Rat(pixel_diff), depth_diff)>>
              ELSE <<>>) \o ratios(Tail(sp))

\* _recalculate_ratio: the calibrator after it, as [ratio, points].  Three
\* faulty variants come first: one sorts self.reference_points itself, one
\* takes the first slope for the mean, one falls back to 10.0 when no pair
\* of points gives a slope.
RecalcFallsBackToTen(ratio, points) ==
    LET rs == ratios(sorted(points))
    IN  [ratio |-> IF rs # <<>> THEN Mean(rs) ELSE Int2Rat(10), points |-> points]

RecalcSortsInPlace(ratio, points) ==
    LET rs == ratios(sorted(points))
    IN  [ratio |-> IF rs # <<>> THEN Mean(rs) ELSE ratio, points |-> sorted(points)]

RecalcKeepsFirstSlope(ratio, points) ==
    LET rs == ratios(sorted(points))
    IN  [ratio |-> IF rs # <<>> THEN rs[1] ELSE ratio, points |-> points]

_recalculate_ratio(ratio, points) ==
    IF Len(points) < 2 THEN [ratio |-> ratio, points |-> points]
    ELSE LET rs == ratios(sorted(points))
         IN  [ratio |-> IF rs # <<>> THEN Mean(rs) ELSE ratio, points |-> points]

\* add_reference_point(pixel_y, depth_cm)
add_reference_point(pixel_y, depth_cm) ==
    /\ Len(reference_points) < MaxPoints
    /\ LET appended == Append(reference_points, <<pixel_y, depth_cm>>)
           after == IF Len(appended) >= 2
                    THEN _recalculate_ratio(pixel_cm_ratio, appended)
                    ELSE [ratio |-> pixel_cm_ratio, points |-> appended]
       IN  /\ reference_points' = after.points
           /\ pixel_cm_ratio' = after.ratio
    /\ calls' = Append(calls, <<pixel_y, depth_cm>>)
    /\ UNCHANGED <<default_ratio, pc, analyzer, frame>>
    /\ op' = "add_reference_point"
    /\ arg' = <<pixel_y, depth_cm>>
    /\ ret' = None

\* The calibrator, as [ratio, points], after add_reference_point has been
\* called with each element of added, in order.
RECURSIVE AfterAdds(_, _)
AfterAdds(start, added) ==
    IF added = <<>> THEN start
    ELSE LET appended == Append(start.points, Head(added))
         IN  AfterAdds(IF Len(appended) >= 2
                       THEN _recalculate_ratio(start.ratio, appended)
                       ELSE [ratio |-> start.ratio, points |-> appended],
                       Tail(added))

\* a / ratio and d + a / ratio in floats.
DivByRatio(a, ratio) == IF ratio = Zero THEN NonFinite ELSE RDiv(Int2Rat(a), ratio)
FAdd(d, q) == IF q = NonFinite THEN NonFinite ELSE RAdd(d, q)

\* get_depth_at_pixel(pixel_y): the value returned.  Two faulty variants
\* come first: one takes the point of lowest pixel_y as the origin, one
\* leaves out the depth of the origin.
DepthWithoutOriginDepth(ratio, points, pixel_y) ==
    IF points # <<>>
    THEN DivByRatio(pixel_y - points[1][1], ratio)
    ELSE DivByRatio(pixel_y, ratio)

DepthFromLowestPixel(ratio, points, pixel_y) ==
    IF points # <<>>
    THEN LET ref == sorted(points)[1]
         IN  FAdd(ref[2], DivByRatio(pixel_y - ref[1], ratio))
    ELSE DivByRatio(pixel_y, ratio)

depth_at_pixel(ratio, points, pixel_y) ==
    IF points # <<>>
    THEN LET ref_pixel == points[1][1]
             ref_depth == points[1][2]
         IN  FAdd(ref_depth, DivByRatio(pixel_y - ref_pixel, ratio))
    ELSE DivByRatio(pixel_y, ratio)

get_depth_at_pixel(pixel_y) ==
    /\ op' = "get_depth_at_pixel"
    /\ arg' = pixel_y
    /\ ret' = depth_at_pixel(pixel_cm_ratio, reference_points, pixel_y)
    /\ UNCHANGED <<calibrator, analyzer, pc, frame>>

\* get_calibration_info()
get_calibration_info ==
    /\ op' = "get_calibration_info"
    /\ arg' = <<>>
    /\ ret' = [pixel_cm_ratio |-> pixel_cm_ratio,
               reference_points |-> reference_points,
               cm_per_pixel |-> IF RLess(Zero, pixel_cm_ratio)
                                THEN RDiv(Int2Rat(1), pixel_cm_ratio)
                                ELSE Zero]
    /\ UNCHANGED <<calibrator, analyzer, pc, frame>>

\* DepthCalibrator(pixel_cm_ratio): __init__
InitCalibrator ==
    /\ pixel_cm_ratio \in DefaultRatios
    /\ default_ratio = pixel_cm_ratio
    /\ reference_points = <<>>
    /\ calls = <<>>
    /\ op = "__init__"
    /\ arg = pixel_cm_ratio
    /\ ret = None
    /\ pc = "returned"
    /\ munsell_df = NoDataFrame
    /\ knn_model = NoModel
    /\ frame = NoFrame

NextCalibrator ==
    \/ \E pixel_y \in PixelYs, depth_cm \in DepthCms : add_reference_point(pixel_y, depth_cm)
    \/ \E pixel_y \in QueryPixels : get_depth_at_pixel(pixel_y)
    \/ get_calibration_info

SpecCalibrator == InitCalibrator /\ [][NextCalibrator]_vars

---------------------------------------------------------------------------
(* round(x, 1)                                                             *)

RECURSIVE IsPowerOfTwo(_)
IsPowerOfTwo(d) == d = 1 \/ (d > 1 /\ d % 2 = 0 /\ IsPowerOfTwo(d \div 2))

\* The floats among the rationals of this model's size: a float holds such a
\* value exactly just when its denominator is a power of two.
IsDyadic(x) == IsPowerOfTwo(x.d)

Tenth(k) == Rat(k, 10)

\* The values round(x, 1) can return for a float whose real value is x.
\* Python rounds the float correctly, and half way to the even digit.  Off a
\* half-way point the nearest tenth of the float is that of x.  On one, the
\* float is x itself when it was computed without rounding error ("exact"),
\* and otherwise lies a little above or below x, on the side its binary
\* expansion puts it: either neighbour.
Round1Set(x, exact) ==
    LET lo == (10 * x.n) \div x.d                  \* floor(10 x)
        twice == 2 * (10 * x.n - lo * x.d)          \* 2 frac(10 x) d
    IN  IF twice < x.d THEN {Tenth(lo)}
        ELSE IF twice > x.d THEN {Tenth(lo + 1)}
        ELSE IF exact THEN {Tenth(IF lo % 2 = 0 THEN lo ELSE lo + 1)}
        ELSE {Tenth(lo), Tenth(lo + 1)}

---------------------------------------------------------------------------
(* estimate_depth                                                          *)

Images == {"profile_a", "profile_b"}
BoxXs == {0, 100}
BoxYs == {-5, 0, 3, 100, 200}
Ratios == {Int2Rat(-5), Zero, Int2Rat(4), Int2Rat(10), Int2Rat(20)}
ReferenceTops == {Zero, Rat(5, 2), Rat(1, 4)}
DefaultPixelCmRatio == 10

\* "if pixel_cm_ratio <= 0: pixel_cm_ratio = 10.0".  The faulty variant
\* tests "< 0".
ValidRatioStrictlyNegative(ratio) ==
    IF RLess(ratio, Zero) THEN Int2Rat(DefaultPixelCmRatio) ELSE ratio

ValidRatio(ratio) ==
    IF RLeq(ratio, Zero) THEN Int2Rat(DefaultPixelCmRatio) ELSE ratio

\* reference_top_cm + (y / pixel_cm_ratio), before rounding (ratio # 0).  The
\* faulty variant leaves reference_top_cm out.
DepthIgnoringReferenceTop(y, ratio, reference_top_cm) == RDiv(Int2Rat(y), ratio)

UnroundedDepth(y, ratio, reference_top_cm) ==
    RAdd(reference_top_cm, RDiv(Int2Rat(y), ratio))

Returned(value) == [raised |-> "", value |-> value]
Raised(exception) == [raised |-> exception, value |-> <<>>]

\* The results estimate_depth can end in.  The same y gives the same float
\* and so the same rounding.  The arguments are floats (dyadic), so a sum
\* that is a float was computed without rounding error.
estimate_depth_returns(image, bounding_box, pixel_cm_ratio_arg, reference_top_cm) ==
    LET y0 == bounding_box[2]
        y1 == bounding_box[4]
        ratio == ValidRatio(pixel_cm_ratio_arg)
    IN  IF ratio = Zero THEN {Raised("ZeroDivisionError")}
        ELSE LET depth(y) == UnroundedDepth(y, ratio, reference_top_cm)
                 rounded == {f \in [{y0, y1} -> UNION {Round1Set(depth(y), IsDyadic(depth(y))) : y \in {y0, y1}}] :
                                \A y \in {y0, y1} : f[y] \in Round1Set(depth(y), IsDyadic(depth(y)))}
             IN  {Returned(<<f[y0], f[y1]>>) : f \in rounded}

\* A call of a function, not returned yet.
Called(function, arguments) ==
    /\ op = function
    /\ arg = arguments
    /\ ret = Returned(<<>>)
    /\ pc = "called"

estimate_depth ==
    /\ pc = "called"
    /\ op = "estimate_depth"
    /\ ret' \in estimate_depth_returns(arg.image, arg.bounding_box, arg.pixel_cm_ratio,
                                       arg.reference_top_cm)
    /\ pc' = "returned"
    /\ UNCHANGED <<calibrator, analyzer, op, arg, frame>>

---------------------------------------------------------------------------
(* get_depth_zones                                                         *)

MaxZones == 6
TotalDepths == {Int2Rat(40), Int2Rat(1), Int2Rat(3), Rat(1, 10), Rat(3, 10), Rat(801, 20)}

\* zone_names: the four names, replaced by "Zone 1" .. "Zone n" when
\* n_zones > 4.  The variant replaces them whenever n_zones is not 4.
FourNames == <<"Surface", "Shallow", "Medium", "Deep">>

ZoneNamesOnlyForFour(n_zones) ==
    IF n_zones # 4 THEN [i \in 1..n_zones |-> "Zone " \o ToString(i)] ELSE FourNames

zone_names(n_zones) ==
    IF n_zones > 4 THEN [i \in 1..n_zones |-> "Zone " \o ToString(i)] ELSE FourNames

ZoneName(n_zones, i) ==
    IF i < Len(zone_names(n_zones)) THEN zone_names(n_zones)[i + 1]
    ELSE "Zone " \o ToString(i + 1)

\* round(i * zone_height, 1) for i = 0 .. last, as the sequences b with
\* b[i + 1] a value the rounding at i can give.  Zone i's top is the value at
\* i and its bottom the value at i + 1, the same float expression as the next
\* zone's top.  The products are exact when zone_height is a float.  The
\* faulty variant does not round.
RECURSIVE BoundsUnrounded(_, _)
BoundsUnrounded(zone_height, last) ==
    IF last < 0 THEN {<<>>}
    ELSE {Append(b, RMul(Int2Rat(last), zone_height)) : b \in BoundsUnrounded(zone_height, last - 1)}

RECURSIVE ZoneBounds(_, _)
ZoneBounds(zone_height, last) ==
    IF last < 0 THEN {<<>>}
    ELSE {Append(b, t) : b \in ZoneBounds(zone_height, last - 1),
                         t \in Round1Set(RMul(Int2Rat(last), zone_height), IsDyadic(zone_height))}

get_depth_zones_returns(total_depth_cm, n_zones) ==
    IF n_zones = 0 THEN {Raised("ZeroDivisionError")}
    ELSE LET zone_height == RDiv(total_depth_cm, Int2Rat(n_zones))
         IN  {Returned([i \in 1..n_zones |-> <<ZoneName(n_zones, i - 1), b[i], b[i + 1]>>]) :
                 b \in ZoneBounds(zone_height, n_zones)}

get_depth_zones ==
    /\ pc = "called"
    /\ op = "get_depth_zones"
    /\ ret' \in get_depth_zones_returns(arg.total_depth_cm, arg.n_zones)
    /\ pc' = "returned"
    /\ UNCHANGED <<calibrator, analyzer, op, arg, frame>>

\* One call of one of the two functions.  No calibrator takes part: its
\* fields stay those of a fresh one.
InitDepth ==
    /\ pixel_cm_ratio = Int2Rat(DefaultPixelCmRatio)
    /\ default_ratio = pixel_cm_ratio
    /\ reference_points = <<>>
    /\ calls = <<>>
    /\ munsell_df = NoDataFrame
    /\ knn_model = NoModel
    /\ frame = NoFrame
    /\ \/ \E image \in Images, x0 \in BoxXs, y0 \in BoxYs, x1 \in BoxXs, y1 \in BoxYs,
             ratio \in Ratios, reference_top_cm \in ReferenceTops :
               Called("estimate_depth",
                      [image |-> image, bounding_box |-> <<x0, y0, x1, y1>>,
                       pixel_cm_ratio |-> ratio, reference_top_cm |-> reference_top_cm])
       \/ \E total_depth_cm \in TotalDepths, n_zones \in 1..MaxZones :
               Called("get_depth_zones",
                      [total_depth_cm |-> total_depth_cm, n_zones |-> n_zones])

NextDepth ==
    \/ estimate_depth
    \/ get_depth_zones

SpecDepth == InitDepth /\ [][NextDepth]_vars

---------------------------------------------------------------------------
(* Python strings, as sequences of characters                              *)

LowerCase == <<"a", "b", "c", "d", "e", "f", "g", "h", "i", "j", "k", "l", "m",
               "n", "o", "p", "q", "r", "s", "t", "u", "v", "w", "x", "y", "z">>
UpperCase == <<"A", "B", "C", "D", "E", "F", "G", "H", "I", "J", "K", "L", "M",
               "N", "O", "P", "Q", "R", "S", "T", "U", "V", "W", "X", "Y", "Z">>
Digits == <<"0", "1", "2", "3", "4", "5", "6", "7", "8", "9">>

\* str.upper()
UpperChar(c) ==
    IF \E i \in 1..Len(LowerCase) : LowerCase[i] = c
    THEN UpperCase[CHOOSE i \in 1..Len(LowerCase) : LowerCase[i] = c]
    ELSE c

upper(str) == [i \in 1..Len(str) |-> UpperChar(str[i])]

\* "sub in str"
Contains(str, sub) ==
    \E i \in 1..(Len(str) - Len(sub) + 1) : SubSeq(str, i, i + Len(sub) - 1) = sub

\* str.split(): the maximal runs of non-blank characters.
RECURSIVE split(_)
split(str) ==
    IF str = <<>> THEN <<>>
    ELSE IF Head(str) = " " THEN split(Tail(str))
    ELSE LET blanks == {i \in 1..Len(str) : str[i] = " "}
             end == IF blanks = {} THEN Len(str) + 1
                    ELSE CHOOSE i \in blanks : \A j \in blanks : i <= j
         IN  <<SubSeq(str, 1, end - 1)>> \o split(SubSeq(str, end, Len(str)))

\* str.split(sep)[0]: what precedes the first sep, the whole string without one.
BeforeFirst(str, sep) ==
    LET at == {i \in 1..Len(str) : str[i] = sep}
    IN  IF at = {} THEN str
        ELSE SubSeq(str, 1, (CHOOSE i \in at : \A j \in at : i <= j) - 1)

IsDigit(c) == \E i \in 1..Len(Digits) : Digits[i] = c
DigitValue(c) == (CHOOSE i \in 1..Len(Digits) : Digits[i] = c) - 1

\* int(str) succeeds on an optional sign followed by digits.
IsIntLiteral(str) ==
    LET digits == IF str # <<>> /\ Head(str) \in {"+", "-"} THEN Tail(str) ELSE str
    IN  digits # <<>> /\ \A i \in 1..Len(digits) : IsDigit(digits[i])

RECURSIVE DigitsValue(_)
DigitsValue(digits) ==
    IF digits = <<>> THEN 0
    ELSE 10 * DigitsValue(SubSeq(digits, 1, Len(digits) - 1)) + DigitValue(digits[Len(digits)])

int(str) ==
    IF Head(str) = "-" THEN -DigitsValue(Tail(str))
    ELSE IF Head(str) = "+" THEN DigitsValue(Tail(str))
    ELSE DigitsValue(str)

---------------------------------------------------------------------------
(* ColorAnalyzer: the reference chart, matching and descriptions           *)

\* The charts the analyzer is constructed on: up to MaxChartRows rows of
\* munsell_name, R, G, B and, in charts with that column, description.
MaxChartRows == 2
ChartNames == {<<"1", "0", "Y", "R", " ", "4", "/", "3">>,
               <<"5", "Y", " ", "6", "/", "1">>}
ChartRGBs == {<<100, 80, 60>>, <<102, 80, 60>>, <<100, 82, 60>>}
\* pandas reads an empty cell as the float NaN, and no cell as the text "NaN".
NaN == "NaN"
ChartDescriptions == {NaN, "Dark Yellowish Brown", "Pale Olive Gray"}
QueryRGBs == {<<100, 80, 60>>, <<101, 80, 60>>, <<101, 81, 60>>, <<104, 80, 60>>}
QueryCodes ==
    {<<"1", "0", "Y", "R", " ", "4", "/", "3">>,
     <<"5", "Y", " ", "6", "/", "1">>,
     <<"7", ".", "5", "Y", "R", " ", "5", "/", "4">>,
     <<"5", "Y", "R", " ", "3", "/", "2">>,
     <<"2", ".", "5", "Y", " ", "8", "/", "2">>,
     <<"1", "0", "Y", " ", "2", "/", "1">>,
     <<"G", "L", "E", "Y", "1", " ", "5", "/", "N">>,
     <<"1", "0", "R", " ", "7", "/", "6">>,
     <<"N", " ", "9", "/", "0">>,
     <<"1", "0", "y", "r", " ", "4", "/", "3">>,
     <<"1", "0", "Y", "R">>,
     <<"1", "0", "Y", "R", " ", "2", ".", "5", "/", "1">>}

Row(name, rgb, description) ==
    [munsell_name |-> name, R |-> rgb[1], G |-> rgb[2], B |-> rgb[3],
     description |-> description]

RowsWithDescription ==
    {Row(name, rgb, d) : name \in ChartNames, rgb \in ChartRGBs, d \in ChartDescriptions}
RowsWithoutDescription == {Row(name, rgb, NaN) : name \in ChartNames, rgb \in ChartRGBs}

SeqsUpTo(S, n) == UNION {[1..k -> S] : k \in 1..n}

RequiredCols == {"munsell_name", "R", "G", "B"}

\* The files at munsell_csv_path, as pandas reads them.
ChartFiles ==
    {[columns |-> RequiredCols \cup {"description"}, rows |-> rows] :
        rows \in SeqsUpTo(RowsWithDescription, MaxChartRows)}
    \cup {[columns |-> RequiredCols, rows |-> rows] :
        rows \in SeqsUpTo(RowsWithoutDescription, MaxChartRows)}

\* _train_classifier: KNeighborsClassifier(n_neighbors=1, metric='euclidean')
\* fitted on the R, G, B columns with the munsell_name column as labels.
_train_classifier(df) ==
    IF df = NoDataFrame THEN NoModel
    ELSE [X |-> [i \in 1..Len(df.rows) |-> <<df.rows[i].R, df.rows[i].G, df.rows[i].B>>],
          labels |-> [i \in 1..Len(df.rows) |-> df.rows[i].munsell_name]]

\* The square of the Euclidean distance: it orders points as the distance does.
Distance2(a, b) ==
    (a[1] - b[1]) * (a[1] - b[1]) + (a[2] - b[2]) * (a[2] - b[2])
        + (a[3] - b[3]) * (a[3] - b[3])

\* knn_model.predict([rgb])[0]: the label of the nearest training point.
\* scikit-learn promises the nearest point; among points at the same distance
\* the one its search structure meets first is returned, which is no function
\* of the order of the rows: any of them.  The faulty variant returns a
\* farthest point.
PredictFarthest(model, rgb) ==
    {model.labels[i] : i \in {k \in 1..Len(model.X) :
        \A j \in 1..Len(model.X) : Distance2(model.X[k], rgb) >= Distance2(model.X[j], rgb)}}

predict(model, rgb) ==
    {model.labels[i] : i \in {k \in 1..Len(model.X) :
        \A j \in 1..Len(model.X) : Distance2(model.X[k], rgb) <= Distance2(model.X[j], rgb)}}

\* _match_to_munsell(rgb)
_match_to_munsell ==
    /\ pc = "called"
    /\ op = "_match_to_munsell"
    /\ ret' \in {Returned(label) : label \in predict(knn_model, arg)}
    /\ pc' = "returned"
    /\ UNCHANGED <<calibrator, analyzer, op, arg, frame>>

YR == <<"Y", "R">>
TenYR == <<"1", "0", "Y", "R">>
SevenFiveYR == <<"7", ".", "5", "Y", "R">>
FiveYR == <<"5", "Y", "R">>
TwoFiveYR == <<"2", ".", "5", "Y", "R">>
FiveY == <<"5", "Y">>
GLEY == <<"G", "L", "E", "Y">>

\* The try block of _generate_description_from_code: the lightness word for
\* the integer before the "/" of the second token, "" when there is no
\* second token or int() fails.
Lightness(code) ==
    LET parts == split(code)
    IN  IF Len(parts) < 2 THEN ""
        ELSE LET value_chroma0 == BeforeFirst(parts[2], "/")
             IN  IF ~IsIntLiteral(value_chroma0) THEN ""
                 ELSE LET value == int(value_chroma0)
                      IN  IF value <= 2 THEN "Black"
                          ELSE IF value <= 3 THEN "Very Dark"
                          ELSE IF value <= 4 THEN "Dark"
                          ELSE IF value <= 5 THEN "Medium"
                          ELSE IF value <= 6 THEN "Light"
                          ELSE IF value <= 7 THEN "Pale"
                          ELSE "Very Pale"

\* The hue chain of _generate_description_from_code.
Base(code) ==
    IF Contains(code, YR)
    THEN IF Contains(code, TenYR) \/ Contains(code, SevenFiveYR) THEN "Brown"
         ELSE IF Contains(code, FiveYR) \/ Contains(code, TwoFiveYR) THEN "Reddish Brown"
         ELSE "Brown"
    ELSE IF Contains(code, <<"Y">>)
    THEN IF Contains(code, FiveY) THEN "Olive" ELSE "Yellowish Brown"
    ELSE IF Contains(code, GLEY) THEN "Gray"
    ELSE IF Contains(code, <<"R">>) THEN "Red"
    ELSE "Gray"

_generate_description_from_code(munsell_code) ==
    LET code == upper(munsell_code)
        lightness == Lightness(code)
        base == Base(code)
    IN  IF lightness # "" THEN lightness \o " " \o base ELSE base

\* get_color_description(munsell_code): the value returned.
color_description(df, munsell_code) ==
    IF df = NoDataFrame THEN "Unknown"
    ELSE LET match == SelectSeq(df.rows, LAMBDA row : row.munsell_name = munsell_code)
         IN  IF match # <<>> /\ "description" \in df.columns
             THEN match[1].description
             ELSE _generate_description_from_code(munsell_code)

get_color_description ==
    /\ pc = "called"
    /\ op = "get_color_description"
    /\ ret' = Returned(color_description(munsell_df, arg))
    /\ pc' = "returned"
    /\ UNCHANGED <<calibrator, analyzer, op, arg, frame>>

\* ColorAnalyzer(munsell_csv_path): __init__ on a file that exists, or on a
\* path with no file (NoDataFrame: munsell_df and knn_model stay None).
Constructed(file) ==
    /\ munsell_df = file
    /\ knn_model = _train_classifier(file)

\* An analyzer, and one call of one of its methods.  _match_to_munsell is
\* called only behind "if self.knn_model is not None".
InitColor ==
    /\ pixel_cm_ratio = Int2Rat(DefaultPixelCmRatio)
    /\ default_ratio = pixel_cm_ratio
    /\ reference_points = <<>>
    /\ calls = <<>>
    /\ \E file \in ChartFiles \cup {NoDataFrame} : Constructed(file)
    /\ frame = NoFrame
    /\ \/ /\ knn_model # NoModel
          /\ \E rgb \in QueryRGBs : Called("_match_to_munsell", rgb)
       \/ \E munsell_code \in QueryCodes : Called("get_color_description", munsell_code)

NextColor ==
    \/ _match_to_munsell
    \/ get_color_description

SpecColor == InitColor /\ [][NextColor]_vars

---------------------------------------------------------------------------
(* ColorAnalyzer.analyze_color: the image pipeline                         *)

\* The images analyze_color is called with: None, an image of size 0, images
\* of 1 to MaxPixels BGR pixels (shape (1, n, 3), dtype uint8), and
\* single-channel images (shape (1, n)).
MaxPixels == 2
Palette == {<<60, 80, 100>>,      \* a soil brown
            <<20, 20, 20>>,       \* nearly black
            <<250, 250, 250>>,    \* nearly white
            <<210, 210, 210>>,    \* a light gray
            <<0, 200, 0>>}        \* a vivid green
GrayWidths == {2, 3}

RECURSIVE Flatten(_)
Flatten(pixels) ==
    IF pixels = <<>> THEN <<>> ELSE Head(pixels) \o Flatten(Tail(pixels))

ColorImage(pixels) == [ndim |-> 3, h |-> 1, w |-> Len(pixels), data |-> Flatten(pixels)]
GrayImage(values) == [ndim |-> 2, h |-> 1, w |-> Len(values), data |-> values]
EmptyImage == [ndim |-> 3, h |-> 0, w |-> 0, data |-> <<>>]

RegionImages ==
    {NoImage, EmptyImage}
    \cup {ColorImage(pixels) : pixels \in SeqsUpTo(Palette, MaxPixels)}
    \cup {GrayImage([i \in 1..n |-> 100]) : n \in GrayWidths}

\* image.size, and image.reshape(-1, 3) as a sequence of rows.
Size(image) == Len(image.data)
Reshape3(image) ==
    [i \in 1..(Size(image) \div 3) |->
        <<image.data[3 * i - 2], image.data[3 * i - 1], image.data[3 * i]>>]

Max2(a, b) == IF a >= b THEN a ELSE b
Min2(a, b) == IF a <= b THEN a ELSE b

\* cv2.cvtColor(.., cv2.COLOR_BGR2HSV) on one 8-bit pixel, as <<h, s, v>>.
\* OpenCV computes it in fixed point with 12 fractional bits: s and h are
\* diff * round(255 * 4096 / v) and hue * round(180 * 4096 / (6 * diff)),
\* rounded to the nearest integer, h taken modulo 180.
RoundDiv(a, b) == (2 * a + b) \div (2 * b)
BGR2HSV(bgr) ==
    LET b == bgr[1]
        g == bgr[2]
        r == bgr[3]
        v == Max2(b, Max2(g, r))
        vmin == Min2(b, Min2(g, r))
        diff == v - vmin
        sdiv == IF v = 0 THEN 0 ELSE RoundDiv(255 * 4096, v)
        hdiv == IF diff = 0 THEN 0 ELSE RoundDiv(180 * 4096, 6 * diff)
        s == (diff * sdiv + 2048) \div 4096
        hue == IF v = r THEN g - b
               ELSE IF v = g THEN b - r + 2 * diff
               ELSE r - g + 4 * diff
        h0 == (hue * hdiv + 2048) \div 4096
        h == IF h0 < 0 THEN h0 + 180 ELSE h0
    IN  <<h, s, v>>

\* cv2.bitwise_and(image, image, mask=..): the pixels outside the mask are
\* set to zero, the shape stays.
Masked(pixels, mask) ==
    [i \in 1..Len(pixels) |-> IF mask[i] THEN pixels[i] ELSE <<0, 0, 0>>]

Count(mask) == Cardinality({i \in 1..Len(mask) : mask[i]})

\* _filter_soil_pixels(image).  cv2.cvtColor raises for an image that has
\* not 3 (or 4) channels; the except clause then returns the image itself.
_filter_soil_pixels(image) ==
    IF image.ndim # 3 THEN image
    ELSE LET pixels == Reshape3(image)
             hsv == [i \in 1..Len(pixels) |-> BGR2HSV(pixels[i])]
             brightness_mask == [i \in 1..Len(pixels) |-> hsv[i][3] > 25 /\ hsv[i][3] < 200]
             saturation_mask == [i \in 1..Len(pixels) |-> hsv[i][2] < 150]
             hue_mask == [i \in 1..Len(pixels) |->
                             hsv[i][1] < 50 \/ hsv[i][1] > 160 \/ hsv[i][2] < 30]
             combined_mask == [i \in 1..Len(pixels) |->
                                  brightness_mask[i] /\ saturation_mask[i] /\ hue_mask[i]]
             valid_pixels == Count(combined_mask)
             total_pixels == image.h * image.w
             simple_mask == [i \in 1..Len(pixels) |-> hsv[i][3] > 30 /\ hsv[i][3] < 220]
         IN  [image EXCEPT !.data =
                 Flatten(Masked(pixels, IF 10 * valid_pixels < total_pixels
                                        THEN simple_mask
                                        ELSE combined_mask))]

\* The sequences that take their i-th element from the i-th set.
RECURSIVE Choices(_)
Choices(sets) ==
    IF sets = <<>> THEN {<<>>}
    ELSE {<<x>> \o rest : x \in Head(sets), rest \in Choices(Tail(sets))}

RECURSIVE Sum(_)
Sum(values) == IF values = <<>> THEN 0 ELSE Head(values) + Sum(Tail(values))

\* np.clip(value * scale, 0, 255).astype(np.uint8) in float32: the product
\* truncated.  A product that is a whole number n in exact arithmetic may be
\* computed as just below n, unless the float32 product is exact (a scale
\* of 1.0, a value of 0).
Scaled(value, scale) ==
    LET product == RMul(Int2Rat(value), scale)
    IN  IF value = 0 \/ scale = Int2Rat(1) THEN {value}
        ELSE IF product.d = 1
        THEN {Min2(255, product.n - 1), Min2(255, product.n)}
        ELSE {Min2(255, product.n \div product.d)}

\* _apply_white_balance(image): the images it can return, or the exception
\* raised by img_float[:, :, 0] on an array of fewer than 3 dimensions.
_apply_white_balance(image) ==
    IF image.ndim # 3 THEN {Raised("IndexError")}
    ELSE LET pixels == Reshape3(image)
             n == Len(pixels)
             mean(c) == Rat(Sum([i \in 1..n |-> pixels[i][c]]), n)
             avg_gray == RDiv(RAdd(mean(1), RAdd(mean(2), mean(3))), Int2Rat(3))
             or1(avg) == IF avg = Zero THEN Int2Rat(1) ELSE avg
             scale(c) == RDiv(avg_gray, or1(mean(c)))
             channel(k) == ((k - 1) % 3) + 1
         IN  {Returned([image EXCEPT !.data = data]) :
                 data \in Choices([k \in 1..Size(image) |->
                                      Scaled(image.data[k], scale(channel(k)))])}

\* cv2.kmeans(pixels, K, ..) and the choice of the dominant cluster: OpenCV
\* starts from random centers, so the clustering is any grouping of the
\* pixel values into at most K clusters (equal pixels get the same label),
\* the dominant one is a cluster of the most pixels, and its center is the
\* mean of its pixels.  The result is (int(c[2]), int(c[1]), int(c[0])).
Clusterings(pixels, K) ==
    LET values == {pixels[i] : i \in 1..Len(pixels)}
    IN  {{{i \in 1..Len(pixels) : label[pixels[i]] = l} : l \in 1..K} \ {{}} :
            label \in [values -> 1..K]}

\* int() of one coordinate of a center: the mean of count values, truncated.
\* OpenCV multiplies the sum by 1.f / count, which is exact only for a count
\* that is a power of two: otherwise a mean that is a whole number n may be
\* computed as just below n.
Truncated(sum, count) ==
    IF sum % count = 0 /\ ~IsPowerOfTwo(count) /\ sum # 0
    THEN {sum \div count - 1, sum \div count}
    ELSE {sum \div count}

Centers(pixels, cluster) ==
    LET members == SelectSeq([i \in 1..Len(pixels) |-> i], LAMBDA i : i \in cluster)
        sum(c) == Sum([k \in 1..Len(members) |-> pixels[members[k]][c]])
    IN  {<<r, g, b>> : r \in Truncated(sum(3), Len(members)),
                       g \in Truncated(sum(2), Len(members)),
                       b \in Truncated(sum(1), Len(members))}

DominantCenters(pixels, K) ==
    UNION {UNION {Centers(pixels, cluster) :
                     cluster \in {c \in clustering :
                                     \A other \in clustering :
                                         Cardinality(c) >= Cardinality(other)}} :
           clustering \in Clusterings(pixels, K)}

\* _get_dominant_color_kmeans(image, k=3): the values it can return, or the
\* exception raised by image.reshape(-1, 3) on a size that is no multiple
\* of 3.
_get_dominant_color_kmeans(image) ==
    IF Size(image) % 3 # 0 THEN {Raised("ValueError")}
    ELSE LET all == Reshape3(image)
             mask(p) == /\ p[1] > 15 /\ p[2] > 15 /\ p[3] > 15
                        /\ p[1] < 240 /\ p[2] < 240 /\ p[3] < 240
                        /\ p[1] + p[2] + p[3] < 3 * 220
             kept == SelectSeq(all, mask)
             darker == SelectSeq(kept, LAMBDA p : p[1] + p[2] + p[3] < 3 * 180)
             pixels == IF Sum(Flatten(kept)) > 180 * 3 * Len(kept) /\ Len(darker) > 100
                       THEN darker
                       ELSE kept
         IN  IF kept = <<>> THEN {Returned(<<128, 128, 128>>)}
             ELSE {Returned(rgb) : rgb \in DominantCenters(pixels, Min2(3, Len(pixels)))}

RECURSIVE Join(_)
Join(parts) ==
    IF parts = <<>> THEN ""
    ELSE IF Len(parts) = 1 THEN parts[1]
    ELSE parts[1] \o " " \o Join(Tail(parts))

\* _fallback_color_description(rgb)
_fallback_color_description(rgb) ==
    LET hsv == BGR2HSV(<<rgb[3], rgb[2], rgb[1]>>)
        h == hsv[1]
        s == hsv[2]
        v == hsv[3]
        brightness == IF v < 50 THEN "Dark" ELSE IF v < 150 THEN "Medium" ELSE "Light"
        saturation == IF s < 30 THEN "Grayish" ELSE IF s < 100 THEN "" ELSE "Vivid"
        hue_name == IF s < 30 THEN "Gray"
                    ELSE IF h < 15 \/ h > 165 THEN "Reddish"
                    ELSE IF h < 25 THEN "Orange"
                    ELSE IF h < 35 THEN "Yellowish Brown"
                    ELSE IF h < 85 THEN "Brown"
                    ELSE "Grayish Brown"
    IN  Join(SelectSeq(<<brightness, saturation, hue_name>>, LAMBDA part : part # ""))

\* analyze_color(image, apply_white_balance): what it can return or raise,
\* each with the local variables it leaves: the stages that have run, the
\* last value of filtered_image, and dominant_rgb.
AfterFilter(image, apply_white_balance) ==
    LET filtered == _filter_soil_pixels(image)
        stages == <<"_filter_soil_pixels">>
    IN  IF apply_white_balance /\ filtered # NoImage /\ Size(filtered) > 0
        THEN {[raised |-> balanced.raised,
               stages |-> Append(stages, "_apply_white_balance"),
               filtered_image |-> IF balanced.raised = "" THEN balanced.value ELSE filtered] :
                 balanced \in _apply_white_balance(filtered)}
        ELSE {[raised |-> "", stages |-> stages, filtered_image |-> filtered]}

AfterDominant(image, apply_white_balance) ==
    UNION {IF f.raised # ""
           THEN {[raised |-> f.raised, stages |-> f.stages,
                  filtered_image |-> f.filtered_image, dominant_rgb |-> <<>>]}
           ELSE {[raised |-> dominant.raised,
                  stages |-> Append(f.stages, "_get_dominant_color_kmeans"),
                  filtered_image |-> f.filtered_image,
                  dominant_rgb |-> dominant.value] :
                    dominant \in IF f.filtered_image # NoImage /\ Size(f.filtered_image) > 0
                                 THEN _get_dominant_color_kmeans(f.filtered_image)
                                 ELSE _get_dominant_color_kmeans(image)} :
           f \in AfterFilter(image, apply_white_balance)}

Locals(d) ==
    [stages |-> d.stages, filtered_image |-> d.filtered_image, dominant_rgb |-> d.dominant_rgb]

analyze_color_returns(model, image, apply_white_balance) ==
    IF image = NoImage \/ Size(image) = 0
    THEN {[ret |-> Returned("Unknown"), frame |-> NoFrame]}
    ELSE UNION {IF d.raised # ""
                THEN {[ret |-> Raised(d.raised), frame |-> Locals(d)]}
                ELSE IF model # NoModel
                THEN {[ret |-> Returned(label),
                       frame |-> [Locals(d) EXCEPT !.stages = Append(@, "_match_to_munsell")]] :
                         label \in predict(model, d.dominant_rgb)}
                ELSE {[ret |-> Returned(_fallback_color_description(d.dominant_rgb)),
                       frame |-> [Locals(d) EXCEPT
                                     !.stages = Append(@, "_fallback_color_description")]]} :
                d \in AfterDominant(image, apply_white_balance)}

analyze_color ==
    /\ pc = "called"
    /\ op = "analyze_color"
    /\ \E result \in analyze_color_returns(knn_model, arg.image, arg.apply_white_balance) :
          /\ ret' = result.ret
          /\ frame' = result.frame
    /\ pc' = "returned"
    /\ UNCHANGED <<calibrator, analyzer, op, arg>>

\* "Unknown" as a chart code.
Unknown == <<"U", "n", "k", "n", "o", "w", "n">>

\* analyze_color_with_name(image, apply_white_balance).  With no chart,
\* get_color_description does not look at the code.
analyze_color_with_name ==
    /\ pc = "called"
    /\ op = "analyze_color_with_name"
    /\ \E result \in analyze_color_returns(knn_model, arg.image, arg.apply_white_balance) :
          /\ frame' = result.frame
          /\ ret' = IF result.ret.raised # "" THEN result.ret
                    ELSE LET munsell_code == result.ret.value
                             color_name ==
                                 IF munsell_df = NoDataFrame
                                 THEN color_description(munsell_df, munsell_code)
                                 ELSE IF result.frame = NoFrame
                                 THEN color_description(munsell_df, Unknown)
                                 ELSE color_description(munsell_df, munsell_code)
                         IN  Returned(<<munsell_code, color_name>>)
    /\ pc' = "returned"
    /\ UNCHANGED <<calibrator, analyzer, op, arg>>

\* ColorAnalyzer(munsell_csv_path): __init__, as the attributes it leaves
\* and what it returns or raises.  NoDataFrame as the file: there is no file
\* at the path.  _load_munsell_data assigns munsell_df before it looks for
\* the required columns, and nothing catches its ValueError.
__init__(file) ==
    IF file = NoDataFrame
    THEN [munsell_df |-> NoDataFrame, knn_model |-> NoModel, ret |-> Returned(None)]
    ELSE IF ~(RequiredCols \subseteq file.columns)
    THEN [munsell_df |-> file, knn_model |-> NoModel, ret |-> Raised("ValueError")]
    ELSE [munsell_df |-> file, knn_model |-> _train_classifier(file), ret |-> Returned(None)]

\* The files the service is started with: no file, a chart of one row, and
\* such a chart with one of the required columns missing.
OneRowCharts == {file \in ChartFiles : Len(file.rows) = 1}
StartupFiles ==
    {NoDataFrame} \cup OneRowCharts
    \cup {[file EXCEPT !.columns = @ \ {col}] : file \in OneRowCharts, col \in RequiredCols}

\* The import of main.py: color_analyzer = ColorAnalyzer(munsell_csv_path)
\* at module level.  An exception of the constructor ends the import, and
\* with it the process.
main ==
    /\ pc = "startup"
    /\ LET constructed == __init__(arg)
       IN  /\ munsell_df' = constructed.munsell_df
           /\ knn_model' = constructed.knn_model
           /\ ret' = constructed.ret
           /\ pc' = IF constructed.ret.raised # "" THEN "crashed" ELSE "ready"
    /\ op' = "__init__"
    /\ UNCHANGED <<calibrator, arg, frame>>

\* A caller calls a method of color_analyzer.
call(function, arguments) ==
    /\ pc = "ready"
    /\ op' = function
    /\ arg' = arguments
    /\ ret' = Returned(<<>>)
    /\ frame' = NoFrame
    /\ pc' = "called"
    /\ UNCHANGED <<calibrator, analyzer>>

\* The caller has taken the result.
taken ==
    /\ pc = "returned"
    /\ op' = "idle"
    /\ arg' = <<>>
    /\ ret' = Returned(<<>>)
    /\ frame' = NoFrame
    /\ pc' = "ready"
    /\ UNCHANGED <<calibrator, analyzer>>

InitService ==
    /\ pixel_cm_ratio = Int2Rat(DefaultPixelCmRatio)
    /\ default_ratio = pixel_cm_ratio
    /\ reference_points = <<>>
    /\ calls = <<>>
    /\ munsell_df = NoDataFrame
    /\ knn_model = NoModel
    /\ frame = NoFrame
    /\ op = "main"
    /\ arg \in StartupFiles
    /\ ret = Returned(<<>>)
    /\ pc = "startup"

NextService ==
    \/ main
    \/ \E image \in RegionImages, apply_white_balance \in BOOLEAN :
          \/ call("analyze_color",
                  [image |-> image, apply_white_balance |-> apply_white_balance])
          \/ call("analyze_color_with_name",
                  [image |-> image, apply_white_balance |-> apply_white_balance])
    \/ \E munsell_code \in QueryCodes : call("get_color_description", munsell_code)
    \/ analyze_color
    \/ analyze_color_with_name
    \/ get_color_description
    \/ taken

SpecService == InitService /\ [][NextService]_vars

---------------------------------------------------------------------------
(* Claims about DepthCalibrator                                            *)

\* The permutation that orders the points by pixel_y, points of equal
\* pixel_y by their position.
StableOrder(points) ==
    LET n == Len(points)
    IN  CHOOSE f \in [1..n -> 1..n] :
            /\ \A i, j \in 1..n : i # j => f[i] # f[j]
            /\ \A i, j \in 1..n : i < j =>
                   \/ points[f[i]][1] < points[f[j]][1]
                   \/ points[f[i]][1] = points[f[j]][1] /\ f[i] < f[j]

\* The consecutive pairs (by their first index in pixel order) whose depths
\* differ, and the slope of such a pair.
ValidPairs(points) ==
    LET f == StableOrder(points)
    IN  {i \in 1..(Len(points) - 1) : points[f[i + 1]][2] # points[f[i]][2]}

SlopeOfPair(points, i) ==
    LET f == StableOrder(points)
    IN  RDiv(Int2Rat(points[f[i + 1]][1] - points[f[i]][1]),
             RSub(points[f[i + 1]][2], points[f[i]][2]))

RECURSIVE SlopeTotal(_, _)
SlopeTotal(points, pairs) ==
    IF pairs = {} THEN Zero
    ELSE LET i == CHOOSE k \in pairs : TRUE
         IN  RAdd(SlopeOfPair(points, i), SlopeTotal(points, pairs \ {i}))

MeanSlope(points) ==
    RDiv(SlopeTotal(points, ValidPairs(points)), Int2Rat(Cardinality(ValidPairs(points))))

Pt(pixel_y, depth) == <<pixel_y, Int2Rat(depth)>>

\* C1 (as amended): with 2 or more points of which at least one consecutive
\* pair (in pixel_y order) has differing depths, pixel_cm_ratio is the
\* arithmetic mean of the slopes of those pairs; with no such pair the ratio
\* is still the one the calibrator was constructed with.  From any default,
\* (0, 0.0) then (100, 10.0) gives ratio 10.0 and get_depth_at_pixel(50) = 5.0.
C1_RatioIsMeanOfValidSlopes ==
    /\ Len(reference_points) >= 2 =>
          IF ValidPairs(reference_points) # {}
          THEN pixel_cm_ratio = MeanSlope(reference_points)
          ELSE pixel_cm_ratio = default_ratio
    /\ reference_points = <<Pt(0, 0), Pt(100, 10)>> =>
          /\ pixel_cm_ratio = Int2Rat(10)
          /\ (op = "get_depth_at_pixel" /\ arg = 50) => ret = Int2Rat(5)

C1_Witness ==
    /\ reference_points = <<Pt(0, 0), Pt(100, 10)>>
    /\ default_ratio = Int2Rat(4)
    /\ op = "get_depth_at_pixel"
    /\ arg = 50
    /\ ret = Int2Rat(5)

\* C1 as stated: whenever 2 or more points are held, the mean of the valid
\* slopes exists and pixel_cm_ratio equals it.
C1_RatioIsMeanWheneverTwoPoints ==
    Len(reference_points) >= 2 =>
        /\ ValidPairs(reference_points) # {}
        /\ pixel_cm_ratio = MeanSlope(reference_points)

\* C2: pixel_cm_ratio is strictly positive in every reachable state.
C2_RatioPositive == RLess(Zero, pixel_cm_ratio)

\* C3: get_depth_at_pixel(pixel_y) returns origin.depth +
\* (pixel_y - origin.pixel_y) / ratio with the first inserted point as the
\* origin, and pixel_y / ratio when there is no point.  Stated without the
\* division: (result - origin.depth) * ratio = pixel_y - origin.pixel_y; a
\* zero ratio gives a non-finite float.
C3_DepthFromFirstInserted ==
    op = "get_depth_at_pixel" =>
        LET origin == IF reference_points # <<>> THEN reference_points[1] ELSE Pt(0, 0)
        IN  IF pixel_cm_ratio = Zero
            THEN ret = NonFinite
            ELSE /\ ret # NonFinite
                 /\ RMul(RSub(ret, origin[2]), pixel_cm_ratio) = Int2Rat(arg - origin[1])

C3_Witness ==
    /\ reference_points = <<Pt(100, 0), Pt(0, 5), Pt(50, 10)>>
    /\ op = "get_depth_at_pixel"
    /\ arg = 50
    /\ ret = Int2Rat(-20)

IsPrefix(s, t) == Len(s) <= Len(t) /\ SubSeq(t, 1, Len(s)) = s

\* C4: the stored points are the call arguments in call order, and no step
\* removes, reorders or alters a stored point.
C4_AppendOnly ==
    /\ [](reference_points = calls)
    /\ [][IsPrefix(reference_points, reference_points')]_vars

C4_Witness ==
    /\ Len(reference_points) = 3
    /\ reference_points[1][1] > reference_points[2][1]
    /\ reference_points[2][1] > reference_points[3][1]
    /\ op = "get_calibration_info"

\* C15: with 0 or 1 reference points pixel_cm_ratio is the ratio the
\* calibrator was constructed with, and a step changes pixel_cm_ratio only
\* if it is an add_reference_point call that leaves 2 or more points of
\* which at least one consecutive pair (in pixel_y order) has differing
\* depths.
C15_RatioChangesOnlyWithValidPair ==
    /\ [](Len(reference_points) <= 1 => pixel_cm_ratio = default_ratio)
    /\ [][pixel_cm_ratio' # pixel_cm_ratio =>
             /\ op' = "add_reference_point"
             /\ Len(reference_points') >= 2
             /\ ValidPairs(reference_points') # {}]_vars

C15_Witness ==
    /\ op = "add_reference_point"
    /\ Len(reference_points) = 2
    /\ reference_points[1][1] # reference_points[2][1]
    /\ ValidPairs(reference_points) = {}
    /\ default_ratio = Int2Rat(4)
    /\ pixel_cm_ratio = default_ratio

\* The orders in which the points of a sequence can be inserted.
Orders(points) ==
    LET n == Len(points)
    IN  {[i \in 1..n |-> points[f[i]]] :
            f \in {g \in [1..n -> 1..n] : \A i, j \in 1..n : i # j => g[i] # g[j]}}

DistinctPixels(points) ==
    \A i, j \in 1..Len(points) : i # j => points[i][1] # points[j][1]

Fresh(ratio) == [ratio |-> ratio, points |-> <<>>]

\* C16: when the points held have pairwise distinct pixel_y, a fresh
\* calibrator with the same default reaches the same pixel_cm_ratio whatever
\* the order in which the same points are added to it, and an order that
\* starts with the same point gives the same get_depth_at_pixel results.
C16_RatioIndependentOfOrder ==
    DistinctPixels(reference_points) =>
        \A order \in Orders(reference_points) :
            LET other == AfterAdds(Fresh(default_ratio), order)
            IN  /\ other.ratio = pixel_cm_ratio
                /\ (order # <<>> /\ order[1] = reference_points[1]) =>
                       \A pixel_y \in QueryPixels :
                           depth_at_pixel(other.ratio, other.points, pixel_y)
                               = depth_at_pixel(pixel_cm_ratio, reference_points, pixel_y)

C16_Witness ==
    /\ reference_points = <<Pt(100, 0), Pt(0, 5), Pt(50, 10)>>
    /\ default_ratio = Int2Rat(4)
    /\ pixel_cm_ratio # default_ratio
    /\ \E order \in Orders(reference_points) :
           depth_at_pixel(pixel_cm_ratio, order, 50)
               # depth_at_pixel(pixel_cm_ratio, reference_points, 50)

---------------------------------------------------------------------------
(* Claims about estimate_depth and get_depth_zones                         *)

\* t is x rounded to 1 decimal place: a whole number of tenths, no further
\* than 0.05 from x, and the even one of the two when x is a float exactly
\* half way between them.
IsRound1(t, x) ==
    /\ 10 % t.d = 0
    /\ RLeq(RAbs(RSub(t, x)), Rat(1, 20))
    /\ (RAbs(RSub(t, x)) = Rat(1, 20) /\ IsDyadic(x)) => ((10 * t.n) \div t.d) % 2 = 0

ReturnedFrom(function) == pc = "returned" /\ op = function

\* C5: with ratio > 0, estimate_depth returns
\* (round(ref_top + y0/ratio, 1), round(ref_top + y1/ratio, 1)), whatever x0,
\* x1 and the image are; estimate_depth((0,0,100,200), 10, 0) = (0.0, 20.0).
C5_EstimateDepthFormula ==
    (ReturnedFrom("estimate_depth") /\ RLess(Zero, arg.pixel_cm_ratio)) =>
        LET y0 == Int2Rat(arg.bounding_box[2])
            y1 == Int2Rat(arg.bounding_box[4])
        IN  /\ ret.raised = ""
            /\ Len(ret.value) = 2
            /\ IsRound1(ret.value[1], RAdd(arg.reference_top_cm, RDiv(y0, arg.pixel_cm_ratio)))
            /\ IsRound1(ret.value[2], RAdd(arg.reference_top_cm, RDiv(y1, arg.pixel_cm_ratio)))
            /\ (/\ arg.bounding_box = <<0, 0, 100, 200>>
                /\ arg.pixel_cm_ratio = Int2Rat(10)
                /\ arg.reference_top_cm = Zero) => ret.value = <<Zero, Int2Rat(20)>>

C5_Witness ==
    /\ ReturnedFrom("estimate_depth")
    /\ arg.bounding_box = <<100, 3, 0, 200>>
    /\ arg.pixel_cm_ratio = Int2Rat(4)
    /\ arg.reference_top_cm = Rat(5, 2)
    /\ ret.value = <<Rat(16, 5), Rat(105, 2)>>

\* C6: with ratio <= 0, estimate_depth ends in no error and returns what the
\* call with ratio = 10.0 returns.
C6_NonPositiveRatioIsTen ==
    (ReturnedFrom("estimate_depth") /\ RLeq(arg.pixel_cm_ratio, Zero)) =>
        /\ ret.raised = ""
        /\ ret \in estimate_depth_returns(arg.image, arg.bounding_box, Int2Rat(10),
                                          arg.reference_top_cm)
        /\ IsRound1(ret.value[1], RAdd(arg.reference_top_cm,
                                       Rat(arg.bounding_box[2], 10)))
        /\ IsRound1(ret.value[2], RAdd(arg.reference_top_cm,
                                       Rat(arg.bounding_box[4], 10)))

C6_Witness ==
    /\ ReturnedFrom("estimate_depth")
    /\ arg.pixel_cm_ratio = Zero
    /\ arg.bounding_box = <<0, 3, 100, 200>>
    /\ arg.reference_top_cm = Zero
    /\ ret.value = <<Rat(3, 10), Int2Rat(20)>>

ZoneTop(zone) == zone[2]
ZoneBottom(zone) == zone[3]

C8_FourNamesUpToFourZones ==
    ReturnedFrom("get_depth_zones") =>
        \A i \in 1..arg.n_zones :
            ret.value[i][1] = IF arg.n_zones <= 4
                              THEN <<"Surface", "Shallow", "Medium", "Deep">>[i]
                              ELSE "Zone " \o ToString(i)

C8_Witness ==
    /\ ReturnedFrom("get_depth_zones")
    /\ arg.n_zones = 3
    /\ ret.value[1][1] = "Surface"
    /\ ret.value[3][1] = "Medium"

\* C8 as stated: the four names exactly when n_zones = 4, "Zone i" for every
\* other n_zones.
C8_FourNamesOnlyForFourZones ==
    ReturnedFrom("get_depth_zones") =>
        \A i \in 1..arg.n_zones :
            ret.value[i][1] = IF arg.n_zones = 4
                              THEN <<"Surface", "Shallow", "Medium", "Deep">>[i]
                              ELSE "Zone " \o ToString(i)

---------------------------------------------------------------------------
(* Claims about ColorAnalyzer                                              *)

RowRGB(row) == <<row.R, row.G, row.B>>

\* The rows of the chart nearest to rgb.
NearestRows(rgb) ==
    {i \in 1..Len(munsell_df.rows) :
        \A j \in 1..Len(munsell_df.rows) :
            Distance2(RowRGB(munsell_df.rows[i]), rgb) <= Distance2(RowRGB(munsell_df.rows[j]), rgb)}

C10_VerbatimOnlyIfNonEmpty ==
    (ReturnedFrom("get_color_description") /\ munsell_df # NoDataFrame) =>
        LET entries == {i \in 1..Len(munsell_df.rows) : munsell_df.rows[i].munsell_name = arg}
            first == CHOOSE i \in entries : \A j \in entries : i <= j
        IN  IF /\ entries # {}
               /\ "description" \in munsell_df.columns
               /\ munsell_df.rows[first].description # NaN
            THEN ret.value = munsell_df.rows[first].description
            ELSE ret.value = _generate_description_from_code(arg)

\* get_color_description has synthesized the name from its argument: a chart
\* is loaded and there is no entry for the code, or no description column.
Synthesized ==
    /\ ReturnedFrom("get_color_description")
    /\ munsell_df # NoDataFrame
    /\ \/ "description" \notin munsell_df.columns
       \/ \A i \in 1..Len(munsell_df.rows) : munsell_df.rows[i].munsell_name # arg

\* The name returned is base, behind the lightness word when there is one.
BaseNameIs(base) ==
    LET lightness == Lightness(upper(arg))
    IN  ret.value = IF lightness # "" THEN lightness \o " " \o base ELSE base

\* The hue of a code: its first token.
Hue(code) == IF split(code) = <<>> THEN <<>> ELSE split(code)[1]

\* C13: the base name of a synthesized description follows the hue rules:
\* a code containing "YR" gives Brown for hue 10YR or 7.5YR, Reddish Brown
\* for hue 5YR or 2.5YR and Brown otherwise; a code containing "Y" but not
\* "YR" gives Olive for hue 5Y and Yellowish Brown otherwise; a code
\* containing "GLEY" gives Gray; a code containing "R" that is matched by
\* none of these gives Red; any other code gives Gray.
C13_BaseFollowsHueRules ==
    Synthesized =>
        LET code == upper(arg)
            hasYR == Contains(code, YR)
            hasY == Contains(code, <<"Y">>) /\ ~hasYR
            hasGLEY == Contains(code, GLEY)
            hasR == Contains(code, <<"R">>) /\ ~hasYR /\ ~hasY /\ ~hasGLEY
        IN  /\ hasYR =>
                  BaseNameIs(IF Hue(code) \in {TenYR, SevenFiveYR} THEN "Brown"
                             ELSE IF Hue(code) \in {FiveYR, TwoFiveYR} THEN "Reddish Brown"
                             ELSE "Brown")
            /\ hasY => BaseNameIs(IF Hue(code) = FiveY THEN "Olive" ELSE "Yellowish Brown")
            /\ hasGLEY => BaseNameIs("Gray")
            /\ hasR => BaseNameIs("Red")
            /\ (~hasYR /\ ~hasY /\ ~hasGLEY /\ ~hasR) => BaseNameIs("Gray")

---------------------------------------------------------------------------
(* Claims about analyze_color and the start of the service                 *)

NonEmpty(image) == image # NoImage /\ Size(image) > 0

\* C11: analyze_color returns "Unknown" for a None or zero-size image
\* without running any stage of the pipeline, and for every other image it
\* returns without raising: a code of the chart when a chart is loaded, a
\* description otherwise.
C11_AnalyzeNeverRaises ==
    ReturnedFrom("analyze_color") =>
        IF ~NonEmpty(arg.image)
        THEN ret = Returned("Unknown") /\ frame.stages = <<>>
        ELSE /\ ret.raised = ""
             /\ IF knn_model # NoModel
                THEN \E i \in 1..Len(munsell_df.rows) :
                         ret.value = munsell_df.rows[i].munsell_name
                ELSE ret.value = _fallback_color_description(frame.dominant_rgb)

\* C12: when the chart file lacks a required column, the constructor's
\* failure does not end the process: the service is up with an analyzer
\* that has no chart and no nearest-neighbour model, and every analyze_color
\* call on a non-empty image ends in the RGB-heuristic description.
C12_MissingColumnLeavesChartless ==
    /\ (op = "__init__" /\ arg # NoDataFrame /\ ~(RequiredCols \subseteq arg.columns)) =>
          /\ pc = "ready"
          /\ ret.raised = ""
          /\ munsell_df = NoDataFrame
          /\ knn_model = NoModel
    /\ (ReturnedFrom("analyze_color") /\ knn_model = NoModel /\ NonEmpty(arg.image)
            /\ ret.raised = "") =>
          frame.stages[Len(frame.stages)] = "_fallback_color_description"

\* The filter has removed every pixel of the image: it has left no value
\* but 0.
AllRemoved(image) ==
    /\ image.ndim = 3
    /\ \A k \in 1..Size(image) : _filter_soil_pixels(image).data[k] = 0

\* C14: for a non-empty image of which the filter has removed every pixel,
\* the dominant colour is the one extracted from the original image; for an
\* image of which it has left pixels, it is extracted from the filtered
\* image, white-balanced when that was asked for.
C14_EmptyFilterFallsBackToOriginal ==
    (/\ ReturnedFrom("analyze_color")
     /\ NonEmpty(arg.image)
     /\ arg.image.ndim = 3
     /\ ret.raised = "") =>
        IF AllRemoved(arg.image)
        THEN Returned(frame.dominant_rgb) \in _get_dominant_color_kmeans(arg.image)
        ELSE Returned(frame.dominant_rgb) \in _get_dominant_color_kmeans(frame.filtered_image)

\* C18: with no chart loaded, analyze_color_with_name returns for every
\* non-empty image the pair of the RGB-heuristic description and "Unknown",
\* and get_color_description returns "Unknown" for every code.
C18_ChartlessNameIsUnknown ==
    munsell_df = NoDataFrame =>
        /\ (ReturnedFrom("analyze_color_with_name") /\ NonEmpty(arg.image)) =>
              /\ ret.raised = ""
              /\ ret.value = <<_fallback_color_description(frame.dominant_rgb), "Unknown">>
        /\ ReturnedFrom("get_color_description") => ret.value = "Unknown"

=============================================================================
